---------------------------- MODULE Spec2Model ----------------------------
(***************************************************************************)
(* A model of three nodes of the tracktion_graph processing graph:         *)
(*   SummingNode   (tracktion_graph_UtilityNodes.h)                        *)
(*   LatencyNode   (tracktion_graph_UtilityNodes.h)                        *)
(*   FadeInOutNode (tracktion_FadeInOutNode.cpp)                           *)
(* Each node has its own specification (SummingSpec, LatencySpec,          *)
(* FadeSpec); the variables of the other two nodes stay at their idle      *)
(* values.                                                                 *)
(***************************************************************************)
EXTENDS Integers, Sequences, FiniteSets, TLC

(***************************************************************************)
(* Bounds of the model.                                                    *)
(***************************************************************************)
\* SummingNode: number of inputs, input latencies, channel counts, samples
MaxInputs == 3
MaxLatency == 2

\* the channel counts of a node: none, mono, stereo
ChannelCounts == 0..2

\* the constant sample value every input of the SummingNode produces in a block
SampleValue == 2

\* LatencyNode: delay, block size, length of the stream, MIDI time resolution, events
MaxDelay == 3
MaxBlockSize == 2
MaxStream == 5
TicksPerSample == 2
MaxEvents == 2

\* FadeInOutNode: fade times, length of the timeline, block size
MaxFadeTime == 3
MaxTimeline == 8
MaxFadeBlock == 4

VARIABLES
    \* ---- FadeInOutNode -----------------------------------------------
    fadeIn,             \* FadeInOutNode::fadeIn, a time range [start, end]
    fadeOut,            \* FadeInOutNode::fadeOut, a time range [start, end]
    clearExtraSamples,  \* FadeInOutNode::clearExtraSamples
    fadeInSampleRange,  \* FadeInOutNode::fadeInSampleRange
    fadeOutSampleRange, \* FadeInOutNode::fadeOutSampleRange
    fadePrepared,       \* FadeInOutNode::prepareToPlay has run
    fadePos,            \* the timeline position of the play head, in samples
    fadeCall,           \* the last FadeInOutNode::process call: its inputs and what it did
    \* ---- LatencyNode -------------------------------------------------
    latencyNumSamples, \* LatencyNode::latencyNumSamples (N)
    latChannels,       \* numberOfChannels of the wrapped input
    latBlockSize,      \* info.blockSize given to prepareToPlay
    latPrepared,       \* LatencyNode::prepareToPlay has run
    latencyTime,       \* LatencyNode::latencyTimeSeconds, in ticks
    fifo,              \* LatencyNode::fifo
    midi,              \* LatencyNode::midi, the pending MIDI queue
    latPos,            \* samples of the stream processed so far
    latOut,            \* the audio written to the destination, over all calls
    midiIn,            \* the absolute time (ticks) at which each MIDI event came in
    midiOut,           \* the MIDI events added to the destination, over all calls
    midiCapacity,      \* the number of elements the storage of LatencyNode::midi has room for
    latCall,           \* the last LatencyNode::process call: what it found in fifo and midi
    \* ---- SummingNode -------------------------------------------------
    inputs,        \* the input nodes given to the constructor: their NodeProperties
    numReferenced, \* how many of them are referenced (the first ones), the rest are owned
    latencyNodes,  \* the LatencyNodes created so far (node id = Len(inputs) + index)
    nodes,         \* SummingNode::nodes (raw pointers: node ids)
    ownedNodes,    \* SummingNode::ownedNodes (unique_ptrs: node ids)
    prepared,      \* SummingNode::prepareToPlay has run
    sumDest,       \* the destination audio block of the last SummingNode::process
    processed,     \* the input and latency nodes whose hasProcessed() is true in this block
    prepareCalls   \* how many times SummingNode::prepareToPlay has run, counted up to 2

sumVars == <<inputs, numReferenced, latencyNodes, nodes, ownedNodes, prepared, sumDest,
             processed, prepareCalls>>

latVars == <<latencyNumSamples, latChannels, latBlockSize, latPrepared, latencyTime,
             fifo, midi, latPos, latOut, midiIn, midiOut, midiCapacity, latCall>>

fadeVars == <<fadeIn, fadeOut, clearExtraSamples, fadeInSampleRange, fadeOutSampleRange,
              fadePrepared, fadePos, fadeCall>>

vars == <<sumVars, latVars, fadeVars>>

\* A SummingNode with no inputs, never prepared
SummingIdle ==
    /\ inputs = <<>>
    /\ numReferenced = 0
    /\ latencyNodes = <<>>
    /\ nodes = <<>>
    /\ ownedNodes = <<>>
    /\ prepared = FALSE
    /\ sumDest = [processed |-> FALSE, audio |-> <<>>]
    /\ processed = {}
    /\ prepareCalls = 0

\* The LatencyNode as constructed (the member initialisers) with no stream yet
LatencyIdle ==
    /\ latencyNumSamples = 0
    /\ latChannels = 0
    /\ latBlockSize = 0
    /\ latPrepared = FALSE
    /\ latencyTime = 0
    /\ fifo = [numChannels |-> 1, size |-> 32, data |-> [k \in 0..31 |-> 0],
               validStart |-> 0, validEnd |-> 0]
    /\ midi = <<>>
    /\ latPos = 0
    /\ latOut = <<>>
    /\ midiIn = <<>>
    /\ midiOut = <<>>
    /\ midiCapacity = 0
    /\ latCall = [called |-> FALSE]

\* No process call yet
NoFadeCall == [called |-> FALSE]

\* A FadeInOutNode that is never prepared nor processed
FadeIdle ==
    /\ fadeIn = [start |-> 0, end |-> 1]
    /\ fadeOut = [start |-> 0, end |-> 0]
    /\ clearExtraSamples = FALSE
    /\ fadeInSampleRange = [start |-> 0, end |-> 0]
    /\ fadeOutSampleRange = [start |-> 0, end |-> 0]
    /\ fadePrepared = FALSE
    /\ fadePos = 0
    /\ fadeCall = NoFadeCall

(***************************************************************************)
(* Helpers on sequences and integers.                                      *)
(***************************************************************************)
Max(a, b) == IF a >= b THEN a ELSE b

Min(a, b) == IF a <= b THEN a ELSE b

\* std::remove_if (..., n == nullptr) followed by erase: the non-null entries, in order
RECURSIVE RemoveNull(_)
RemoveNull(s) ==
    IF s = <<>> THEN <<>>
    ELSE IF Head(s) = 0 THEN RemoveNull(Tail(s))
    ELSE <<Head(s)>> \o RemoveNull(Tail(s))

(***************************************************************************)
(* SummingNode                                                             *)
(***************************************************************************)
\* nullptr
Null == 0

\* A node id is an input node (1..Len(inputs)) or a created LatencyNode.
IsLatencyNode(id) == id > Len(inputs)

LatencyNodeOf(lat, id) == lat[id - Len(inputs)]

\* a faulty variant: a LatencyNode reports the latency of its input alone
RECURSIVE NodeLatency_NoDelay(_, _)
NodeLatency_NoDelay(lat, id) ==
    IF id <= Len(inputs) THEN inputs[id].latencyNumSamples
    ELSE NodeLatency_NoDelay(lat, LatencyNodeOf(lat, id).input)

\* Node::getNodeProperties().latencyNumSamples of node id; LatencyNode adds its delay
RECURSIVE NodeLatency(_, _)
NodeLatency(lat, id) ==
    IF id <= Len(inputs) THEN inputs[id].latencyNumSamples
    ELSE NodeLatency(lat, LatencyNodeOf(lat, id).input) + LatencyNodeOf(lat, id).latencyNumSamples

\* Node::getNodeProperties().numberOfChannels of node id; LatencyNode passes it through
RECURSIVE NodeChannels(_, _)
NodeChannels(lat, id) ==
    IF id <= Len(inputs) THEN inputs[id].numberOfChannels
    ELSE NodeChannels(lat, LatencyNodeOf(lat, id).input)

\* SummingNode::getNodeProperties().latencyNumSamples: max over the nodes list, from 0
RECURSIVE SummingLatency(_, _)
SummingLatency(lat, ns) ==
    IF ns = <<>> THEN 0
    ELSE Max(NodeLatency(lat, Head(ns)), SummingLatency(lat, Tail(ns)))

\* SummingNode::getNodeProperties().numberOfChannels: max over the nodes list, from 0
RECURSIVE SummingChannels(_, _)
SummingChannels(lat, ns) ==
    IF ns = <<>> THEN 0
    ELSE Max(NodeChannels(lat, Head(ns)), SummingChannels(lat, Tail(ns)))

\* Node::getNodeProperties().hasAudio of node id; LatencyNode passes it through
RECURSIVE NodeHasAudio(_, _)
NodeHasAudio(lat, id) ==
    IF id <= Len(inputs) THEN inputs[id].hasAudio
    ELSE NodeHasAudio(lat, LatencyNodeOf(lat, id).input)

\* a faulty variant: a LatencyNode reports no MIDI, whatever its input has
NodeHasMidi_OwnOnly(lat, id) ==
    IF id <= Len(inputs) THEN inputs[id].hasMidi ELSE FALSE

\* Node::getNodeProperties().hasMidi of node id; LatencyNode passes it through
RECURSIVE NodeHasMidi(_, _)
NodeHasMidi(lat, id) ==
    IF id <= Len(inputs) THEN inputs[id].hasMidi
    ELSE NodeHasMidi(lat, LatencyNodeOf(lat, id).input)

\* SummingNode::getNodeProperties: OR and MAX over the nodes list
GetNodeProperties(lat, ns) ==
    [hasAudio |-> \E i \in 1..Len(ns) : NodeHasAudio(lat, ns[i]),
     hasMidi |-> \E i \in 1..Len(ns) : NodeHasMidi(lat, ns[i]),
     numberOfChannels |-> SummingChannels(lat, ns),
     latencyNumSamples |-> SummingLatency(lat, ns)]

\* a faulty variant: the owned node is never found
GetOwnedIndex_NotFound(owned, nodeToFind) == 0

\* the getOwnedNode lambda: the index in ownedNodes holding nodeToFind, or 0
GetOwnedIndex(owned, nodeToFind) ==
    IF \E k \in DOMAIN owned : owned[k] = nodeToFind
    THEN CHOOSE k \in DOMAIN owned :
            /\ owned[k] = nodeToFind
            /\ \A j \in DOMAIN owned : owned[j] = nodeToFind => k <= j
    ELSE 0

\* Lines 253-258 of createLatencyNodes: wrap nodes[i] in a new LatencyNode
\* st = [nodes, ownedNodes, ownedNodesToAdd, latencyNodes]
WrapNode(st, i, latencyToAdd) ==
    LET node == st.nodes[i]
        k == GetOwnedIndex(st.ownedNodes, node)
        newId == Len(inputs) + Len(st.latencyNodes) + 1
        latencyNode == [input |-> node,
                        ownedInput |-> IF k # 0 THEN node ELSE Null,
                        latencyNumSamples |-> latencyToAdd]
    IN  [nodes |-> [st.nodes EXCEPT ![i] = Null],
         ownedNodes |-> IF k # 0 THEN [st.ownedNodes EXCEPT ![k] = Null]
                        ELSE st.ownedNodes,
         ownedNodesToAdd |-> Append(st.ownedNodesToAdd, newId),
         latencyNodes |-> Append(st.latencyNodes, latencyNode)]

\* a faulty variant: the delay is the maximum latency, not the difference to it
CreateLatencyNodeFor_NoSubtract(st, i, maxLatency) ==
    IF maxLatency = 0 THEN st ELSE WrapNode(st, i, maxLatency)

\* One iteration of the loop of createLatencyNodes over nodes[i]
CreateLatencyNodeFor(st, i, maxLatency) ==
    LET nodeLatency == NodeLatency(st.latencyNodes, st.nodes[i])
        latencyToAdd == maxLatency - nodeLatency
    IN  IF latencyToAdd = 0 THEN st ELSE WrapNode(st, i, latencyToAdd)

RECURSIVE CreateLoop(_, _, _)
CreateLoop(st, i, maxLatency) ==
    IF i > Len(st.nodes) THEN st
    ELSE CreateLoop(CreateLatencyNodeFor(st, i, maxLatency), i + 1, maxLatency)

\* a faulty variant: the new nodes are put in front of the kept ones
NodesAfterCreate_Front(st) == RemoveNull(st.ownedNodesToAdd \o st.nodes)

\* The order in which the new nodes enter the raw array: pushed back, then nulls erased
NodesAfterCreate(st) == RemoveNull(st.nodes \o st.ownedNodesToAdd)

\* SummingNode::createLatencyNodes
CreateLatencyNodes(ns, owned, lat) ==
    LET maxLatency == SummingLatency(lat, ns)
        st == CreateLoop([nodes |-> ns, ownedNodes |-> owned,
                          ownedNodesToAdd |-> <<>>, latencyNodes |-> lat],
                         1, maxLatency)
    IN  [nodes |-> NodesAfterCreate(st),
         ownedNodes |-> RemoveNull(st.ownedNodes \o st.ownedNodesToAdd),
         latencyNodes |-> st.latencyNodes]

\* SummingNode::getDirectInputNodes
GetDirectInputNodes == nodes

\* The three constructors: referenced inputs first, then the owned ones
SummingInit ==
    /\ \E n \in 0..MaxInputs :
          inputs \in [1..n -> [latencyNumSamples : 0..MaxLatency,
                               numberOfChannels : ChannelCounts]]
    /\ numReferenced \in 0..Len(inputs)
    /\ latencyNodes = <<>>
    /\ nodes = [i \in 1..Len(inputs) |-> i]
    /\ ownedNodes = [i \in 1..(Len(inputs) - numReferenced) |-> numReferenced + i]
    /\ prepared = FALSE
    /\ sumDest = [processed |-> FALSE, audio |-> <<>>]
    /\ processed = {}
    /\ prepareCalls = 0
    /\ LatencyIdle
    /\ FadeIdle

\* SummingNode::prepareToPlay
SummingPrepareToPlay ==
    /\ LET r == CreateLatencyNodes(nodes, ownedNodes, latencyNodes)
       IN  /\ nodes' = r.nodes
           /\ ownedNodes' = r.ownedNodes
           /\ latencyNodes' = r.latencyNodes
    /\ prepared' = TRUE
    /\ prepareCalls' = Min(prepareCalls + 1, 2)
    /\ UNCHANGED <<inputs, numReferenced, sumDest, processed>>
    /\ UNCHANGED <<latVars, fadeVars>>

\* The scheduler prepares the SummingNode once, before playback
GraphPrepare ==
    /\ ~prepared
    /\ SummingPrepareToPlay

\* a faulty variant: the input is added to every channel of the destination
AddInput_AllChannels(dest, numInputChannels, c) ==
    [ch \in 1..Len(dest) |-> IF numInputChannels > 0 THEN dest[ch] + c ELSE dest[ch]]

\* The body of the loop of SummingNode::process for one input node, whose
\* processed output holds the sample value c on each of its channels
AddInput(dest, numInputChannels, c) ==
    LET numChannelsToAdd == Min(numInputChannels, Len(dest))
    IN  [ch \in 1..Len(dest) |-> IF ch <= numChannelsToAdd THEN dest[ch] + c ELSE dest[ch]]

RECURSIVE SumInputs(_, _, _)
SumInputs(dest, ns, c) ==
    IF ns = <<>> THEN dest
    ELSE SumInputs(AddInput(dest, NodeChannels(latencyNodes, Head(ns)), c), Tail(ns), c)

\* SummingNode::process on a zeroed destination of numChannels channels
ProcessInto(numChannels) ==
    /\ sumDest' = [processed |-> TRUE,
                   audio |-> SumInputs([ch \in 1..numChannels |-> 0], nodes, SampleValue)]
    /\ UNCHANGED <<inputs, numReferenced, latencyNodes, nodes, ownedNodes, prepared,
                   prepareCalls>>
    /\ UNCHANGED <<latVars, fadeVars>>

\* SummingNode::process in a block in which every input holds its output
SummingProcess ==
    /\ prepared
    /\ \E numChannels \in ChannelCounts : ProcessInto(numChannels)
    /\ UNCHANGED processed

SummingNext == GraphPrepare \/ SummingProcess

SummingSpec == SummingInit /\ [][SummingNext]_vars

\* The kinds of input node: nothing, mono audio, MIDI only, stereo audio with MIDI
InputKinds ==
    { [hasAudio |-> FALSE, hasMidi |-> FALSE, numberOfChannels |-> 0],
      [hasAudio |-> TRUE, hasMidi |-> FALSE, numberOfChannels |-> 1],
      [hasAudio |-> FALSE, hasMidi |-> TRUE, numberOfChannels |-> 0],
      [hasAudio |-> TRUE, hasMidi |-> TRUE, numberOfChannels |-> 2] }

\* SummingNode (std::vector<std::unique_ptr<Node>>) over inputs of every kind
PropertiesInit ==
    /\ \E n \in 0..MaxInputs :
          inputs \in [1..n -> { [hasAudio |-> kind.hasAudio, hasMidi |-> kind.hasMidi,
                                 numberOfChannels |-> kind.numberOfChannels,
                                 latencyNumSamples |-> l] :
                                kind \in InputKinds, l \in 0..MaxLatency }]
    /\ numReferenced = 0
    /\ latencyNodes = <<>>
    /\ nodes = [i \in 1..Len(inputs) |-> i]
    /\ ownedNodes = [i \in 1..Len(inputs) |-> i]
    /\ prepared = FALSE
    /\ sumDest = [processed |-> FALSE, audio |-> <<>>]
    /\ processed = {}
    /\ prepareCalls = 0
    /\ LatencyIdle
    /\ FadeIdle

PropertiesSpec == PropertiesInit /\ [][SummingNext]_vars

(***************************************************************************)
(* The SummingNode in its graph: the scheduler prepares it once, then in   *)
(* every block processes each node whose isReadyToProcess() is true        *)
(***************************************************************************)
\* Mono inputs: the channel counts play no part in readiness
GraphInit ==
    /\ \E n \in 0..MaxInputs :
          inputs \in [1..n -> [latencyNumSamples : 0..MaxLatency,
                               numberOfChannels : {1}]]
    /\ numReferenced \in 0..Len(inputs)
    /\ latencyNodes = <<>>
    /\ nodes = [i \in 1..Len(inputs) |-> i]
    /\ ownedNodes = [i \in 1..(Len(inputs) - numReferenced) |-> numReferenced + i]
    /\ prepared = FALSE
    /\ sumDest = [processed |-> FALSE, audio |-> <<>>]
    /\ processed = {}
    /\ prepareCalls = 0
    /\ LatencyIdle
    /\ FadeIdle

\* LatencyNode::isReadyToProcess of the LatencyNode with this id
LatencyIsReadyToProcess(id) == LatencyNodeOf(latencyNodes, id).input \in processed

\* a faulty variant: ready as soon as one node of the input list has processed
SummingIsReadyToProcess_Any == \E i \in 1..Len(nodes) : nodes[i] \in processed

\* SummingNode::isReadyToProcess
SummingIsReadyToProcess == \A i \in 1..Len(nodes) : nodes[i] \in processed

\* The scheduler processes an input node: a leaf, always ready
ProcessInputNode ==
    /\ prepared
    /\ \E id \in 1..Len(inputs) :
          /\ id \notin processed
          /\ processed' = processed \cup {id}
    /\ UNCHANGED <<inputs, numReferenced, latencyNodes, nodes, ownedNodes, prepared, sumDest,
                   prepareCalls>>
    /\ UNCHANGED <<latVars, fadeVars>>

\* The scheduler processes a LatencyNode that is ready
ProcessLatencyNode ==
    /\ prepared
    /\ \E k \in 1..Len(latencyNodes) :
          /\ (Len(inputs) + k) \notin processed
          /\ LatencyIsReadyToProcess(Len(inputs) + k)
          /\ processed' = processed \cup {Len(inputs) + k}
    /\ UNCHANGED <<inputs, numReferenced, latencyNodes, nodes, ownedNodes, prepared, sumDest,
                   prepareCalls>>
    /\ UNCHANGED <<latVars, fadeVars>>

\* The scheduler processes the SummingNode once it is ready
ProcessSummingNode ==
    /\ prepared
    /\ ~sumDest.processed
    /\ SummingIsReadyToProcess
    /\ ProcessInto(1)
    /\ UNCHANGED processed

\* The block is over: every node's hasProcessed() is false again
NextBlock ==
    /\ sumDest.processed
    /\ processed' = {}
    /\ sumDest' = [processed |-> FALSE, audio |-> <<>>]
    /\ UNCHANGED <<inputs, numReferenced, latencyNodes, nodes, ownedNodes, prepared,
                   prepareCalls>>
    /\ UNCHANGED <<latVars, fadeVars>>

GraphNext ==
    \/ GraphPrepare
    \/ ProcessInputNode
    \/ ProcessLatencyNode
    \/ ProcessSummingNode
    \/ NextBlock

GraphSpec == GraphInit /\ [][GraphNext]_vars

\* The SummingNode whose prepareToPlay is called again, also between blocks
RealignNext == SummingPrepareToPlay \/ SummingProcess

RealignSpec == GraphInit /\ [][RealignNext]_vars

(***************************************************************************)
(* AudioFifo: a ring buffer over an AbstractFifo, one slot always kept     *)
(* free.  One channel of samples is modelled; every channel is handled     *)
(* alike.                                                                  *)
(***************************************************************************)
\* AudioFifo::setSize: resizes the buffer and resets the read and write positions
FifoSetSize(numChannels, numSamples) ==
    [numChannels |-> numChannels, size |-> numSamples,
     data |-> [k \in 0..(numSamples - 1) |-> 0], validStart |-> 0, validEnd |-> 0]

\* AudioFifo::getNumReady
FifoNumReady(f) == (f.validEnd - f.validStart + f.size) % f.size

\* AudioFifo::getFreeSpace
FifoFreeSpace(f) == f.size - FifoNumReady(f) - 1

\* AudioFifo::write: nothing is written unless the whole block fits
FifoWrite(f, block) ==
    IF Len(block) > FifoFreeSpace(f) THEN f
    ELSE [f EXCEPT
            !.data = [k \in 0..(f.size - 1) |->
                        LET off == (k - f.validEnd + f.size) % f.size
                        IN  IF off < Len(block) THEN block[off + 1] ELSE f.data[k]],
            !.validEnd = (f.validEnd + Len(block)) % f.size]

\* AudioFifo::writeSilence
FifoWriteSilence(f, numSamples) == FifoWrite(f, [k \in 1..numSamples |-> 0])

\* AudioFifo::readAdding, the samples: dest plus the oldest samples; dest is
\* left as it is unless enough samples are ready
FifoReadAddingDest(f, dest) ==
    IF Len(dest) > FifoNumReady(f) THEN dest
    ELSE [k \in 1..Len(dest) |-> dest[k] + f.data[(f.validStart + k - 1) % f.size]]

\* AudioFifo::readAdding, the fifo afterwards
FifoReadAddingFifo(f, dest) ==
    IF Len(dest) > FifoNumReady(f) THEN f
    ELSE [f EXCEPT !.validStart = (f.validStart + Len(dest)) % f.size]

(***************************************************************************)
(* MidiMessageArray: a sequence of [id, time] records, time in ticks       *)
(***************************************************************************)
\* the position at which a message of time t enters a time-ordered array
RECURSIVE InsertOrdered(_, _)
InsertOrdered(arr, m) ==
    IF arr = <<>> THEN <<m>>
    ELSE IF Head(arr).time <= m.time THEN <<Head(arr)>> \o InsertOrdered(Tail(arr), m)
    ELSE <<m>> \o arr

\* MidiMessageArray::mergeFromWithOffset
RECURSIVE MergeFromWithOffset(_, _, _)
MergeFromWithOffset(arr, source, delta) ==
    IF source = <<>> THEN arr
    ELSE MergeFromWithOffset(
            InsertOrdered(arr, [Head(source) EXCEPT !.time = @ + delta]),
            Tail(source), delta)

\* MidiMessageArray::addToTimestamps
AddToTimestamps(arr, delta) == [k \in DOMAIN arr |-> [arr[k] EXCEPT !.time = @ + delta]]

\* MidiMessageArray::remove
RemoveAt(arr, i) == [k \in 1..(Len(arr) - 1) |-> IF k < i THEN arr[k] ELSE arr[k + 1]]

(***************************************************************************)
(* LatencyNode                                                             *)
(***************************************************************************)
\* The sample of the input stream at (1-based) stream index k
InputSample(k) == k

\* LatencyNode (inputNode, numSamplesToDelay) over an input with latChannels channels
LatencyInit ==
    /\ latencyNumSamples \in 0..MaxDelay
    /\ latChannels \in 0..1
    /\ latBlockSize = 0
    /\ latPrepared = FALSE
    /\ latencyTime = 0
    /\ fifo = [numChannels |-> 1, size |-> 32, data |-> [k \in 0..31 |-> 0],
               validStart |-> 0, validEnd |-> 0]
    /\ midi = <<>>
    /\ latPos = 0
    /\ latOut = <<>>
    /\ midiIn = <<>>
    /\ midiOut = <<>>
    /\ midiCapacity = 0
    /\ latCall = [called |-> FALSE]
    /\ SummingIdle
    /\ FadeIdle

\* a faulty variant: one sample of silence too many is written
PreparedFifo_OneMore(numChannels, numSamplesToDelay, blockSize) ==
    FifoWriteSilence(FifoSetSize(numChannels, numSamplesToDelay + blockSize + 1),
                     numSamplesToDelay + 1)

\* a faulty variant: the fifo has no room for a block on top of the delay
PreparedFifo_NoRoom(numChannels, numSamplesToDelay, blockSize) ==
    FifoWriteSilence(FifoSetSize(numChannels, numSamplesToDelay + 1), numSamplesToDelay)

\* LatencyNode::prepareToPlay, lines 65-66: the fifo sized and filled with silence
PreparedFifo(numChannels, numSamplesToDelay, blockSize) ==
    FifoWriteSilence(FifoSetSize(numChannels, numSamplesToDelay + blockSize + 1),
                     numSamplesToDelay)

\* a faulty variant: the delay in samples is taken as the delay in time
LatencyTimeOf_NoRate(numSamplesToDelay) == numSamplesToDelay

\* LatencyNode::prepareToPlay, line 63: latencyNumSamples / sampleRate, in ticks
LatencyTimeOf(numSamplesToDelay) == numSamplesToDelay * TicksPerSample

\* LatencyNode::prepareToPlay
LatencyPrepareToPlay ==
    /\ ~latPrepared
    /\ \E blockSize \in 1..MaxBlockSize :
          /\ latBlockSize' = blockSize
          /\ fifo' = PreparedFifo(latChannels, latencyNumSamples, blockSize)
    /\ latencyTime' = LatencyTimeOf(latencyNumSamples)
    /\ latPrepared' = TRUE
    /\ UNCHANGED <<latencyNumSamples, latChannels, midi, latPos, latOut, midiIn, midiOut,
                   midiCapacity, latCall>>
    /\ UNCHANGED <<sumVars, fadeVars>>

\* a faulty variant: the comparison with the block time is the wrong way round
IsDue_Reversed(m, blockTime) == m.time >= blockTime

\* line 101: the message is due in this block
IsDue(m, blockTime) == m.time <= blockTime

\* The loop of lines 97-107, from index i down to 1.
\* st = [midi, dest]: the pending queue and the destination MIDI
RECURSIVE ReadDelayed(_, _, _)
ReadDelayed(st, i, blockTime) ==
    IF i < 1 THEN st
    ELSE IF IsDue(st.midi[i], blockTime)
         THEN ReadDelayed([midi |-> RemoveAt(st.midi, i),
                           dest |-> Append(st.dest, st.midi[i])],
                          i - 1, blockTime)
         ELSE ReadDelayed(st, i - 1, blockTime)

\* The blocks of MIDI an input may hand over in a block of blockTime ticks: at
\* most `room` events, time-ordered, with times in [0, blockTime)
InputMidiBlocks(blockTime, room) ==
    { <<>> }
    \cup (IF room >= 1 THEN { <<t>> : t \in 0..(blockTime - 1) } ELSE {})
    \cup (IF room >= 2
          THEN { p \in (0..(blockTime - 1)) \X (0..(blockTime - 1)) : p[1] <= p[2] }
          ELSE {})

\* juce::Array::ensureAllocatedSize: the storage grows when it is too small
EnsureAllocatedSize(capacity, minNumElements) ==
    IF minNumElements > capacity
    THEN ((minNumElements + (minNumElements \div 2) + 8) \div 8) * 8
    ELSE capacity

\* juce::Array::minimiseStorageAfterRemoval: the storage shrinks when more than
\* half of it is unused, down to the size or to 64 bytes' worth of elements
MinimiseStorageAfterRemoval(capacity, size) ==
    IF capacity > 2 * size THEN Min(capacity, Max(size, 2)) ELSE capacity

\* The capacity of the queue after `removals` calls of remove, from `size` elements
RECURSIVE CapacityAfterRemovals(_, _, _)
CapacityAfterRemovals(capacity, size, removals) ==
    IF removals = 0 THEN capacity
    ELSE CapacityAfterRemovals(MinimiseStorageAfterRemoval(capacity, size - 1),
                               size - 1, removals - 1)

\* LatencyNode::process for a block of numSamples samples whose input MIDI
\* holds events at the times of `times`; the destination is zeroed and empty
LatencyProcess ==
    /\ latPrepared
    /\ \E numSamples \in 1..latBlockSize :
        /\ latPos + numSamples <= MaxStream
        /\ \E times \in InputMidiBlocks(numSamples * TicksPerSample, MaxEvents - Len(midiIn)) :
            LET inputBuffer == [k \in 1..numSamples |-> InputSample(latPos + k)]
                outputBlock == [k \in 1..numSamples |-> 0]
                inputMidi == [k \in DOMAIN times |-> [id |-> Len(midiIn) + k, time |-> times[k]]]
                written == FifoWrite(fifo, inputBuffer)
                merged == MergeFromWithOffset(midi, inputMidi, latencyTime)
                blockTime == numSamples * TicksPerSample
                read == ReadDelayed([midi |-> merged, dest |-> <<>>], Len(merged), blockTime)
                now == latPos * TicksPerSample
                mergedCapacity == EnsureAllocatedSize(midiCapacity, Len(merged))
            IN  /\ IF fifo.numChannels > 0
                   THEN /\ fifo' = FifoReadAddingFifo(written, outputBlock)
                        /\ latOut' = latOut \o FifoReadAddingDest(written, outputBlock)
                   ELSE UNCHANGED <<fifo, latOut>>
                /\ midi' = AddToTimestamps(read.midi, -blockTime)
                /\ midiIn' = midiIn \o [k \in DOMAIN times |-> now + times[k]]
                /\ midiOut' = midiOut \o [k \in DOMAIN read.dest |->
                                            [id |-> read.dest[k].id,
                                             time |-> read.dest[k].time,
                                             blockStart |-> now,
                                             blockTime |-> blockTime]]
                /\ latPos' = latPos + numSamples
                /\ midiCapacity' = CapacityAfterRemovals(mergedCapacity, Len(merged),
                                                         Len(read.dest))
                /\ latCall' = [called |-> TRUE,
                               numSamples |-> numSamples,
                               usesFifo |-> fifo.numChannels > 0,
                               freeSpace |-> FifoFreeSpace(fifo),
                               numReady |-> FifoNumReady(written),
                               midiCapacityBefore |-> midiCapacity,
                               midiCapacityMerged |-> mergedCapacity]
    /\ UNCHANGED <<latencyNumSamples, latChannels, latBlockSize, latPrepared, latencyTime>>
    /\ UNCHANGED <<sumVars, fadeVars>>

LatencyNext == LatencyPrepareToPlay \/ LatencyProcess

LatencySpec == LatencyInit /\ [][LatencyNext]_vars

(***************************************************************************)
(* Sample values and gains as fractions <<numerator, denominator>>         *)
(***************************************************************************)
RECURSIVE GCD(_, _)
GCD(a, b) == IF b = 0 THEN a ELSE GCD(b, a % b)

Abs(a) == IF a < 0 THEN -a ELSE a

\* the fraction n/d in lowest terms, d > 0
Frac(n, d) ==
    LET g == GCD(Abs(n), d)
    IN  <<n \div g, d \div g>>

FracMul(x, y) == Frac(x[1] * y[1], x[2] * y[2])

\* juce::Range<int64_t>
RangeLength(r) == r.end - r.start

\* a faulty variant: every two ranges are taken to intersect
RangeIntersects_Always(r, other) == TRUE

\* juce::Range::intersects
RangeIntersects(r, other) == other.start < r.end /\ r.start < other.end

\* tracktion_graph::timeToSample for a time range, times in whole time units
TimeToSample(range, sampleRate) ==
    [start |-> range.start * sampleRate, end |-> range.end * sampleRate]

\* AudioBlock::getSubBlock (start, length).clear()
ClearSubBlock(buffer, start, length) ==
    [k \in DOMAIN buffer |->
        IF k > start /\ k <= start + length THEN Frac(0, 1) ELSE buffer[k]]

\* AudioFadeCurve::applyCrossfadeSection with the linear curve: a gain ramp
\* over [startSamp, startSamp + numSamples) from alpha1 to alpha2, the alphas
\* given as numerators over den
ApplyCrossfadeSection(buffer, startSamp, numSamples, alpha1, alpha2, den) ==
    [k \in DOMAIN buffer |->
        IF k > startSamp /\ k <= startSamp + numSamples
        THEN FracMul(buffer[k],
                     Frac(alpha1 * numSamples + (k - 1 - startSamp) * (alpha2 - alpha1),
                          den * numSamples))
        ELSE buffer[k]]

\* juce::jlimit (0, 1, alpha) for alpha = num / den
Limit01(num, den) == Max(0, Min(den, num))

(***************************************************************************)
(* FadeInOutNode                                                           *)
(***************************************************************************)
\* the sample rates, in samples per time unit
FadeSampleRates == {1, 2}

\* the time ranges a fade may have: start <= end
FadeTimeRanges == { r \in [start : 0..MaxFadeTime, end : 0..MaxFadeTime] : r.start <= r.end }

\* FadeInOutNode::FadeInOutNode: not both fades are empty (line 29)
FadeInit ==
    /\ fadeIn \in FadeTimeRanges
    /\ fadeOut \in FadeTimeRanges
    /\ ~(fadeIn.start = fadeIn.end /\ fadeOut.start = fadeOut.end)
    /\ clearExtraSamples \in BOOLEAN
    /\ fadeInSampleRange = [start |-> 0, end |-> 0]
    /\ fadeOutSampleRange = [start |-> 0, end |-> 0]
    /\ fadePrepared = FALSE
    /\ fadePos = 0
    /\ fadeCall = NoFadeCall
    /\ SummingIdle
    /\ LatencyIdle

\* FadeInOutNode::prepareToPlay
FadePrepareToPlay ==
    /\ ~fadePrepared
    /\ \E sampleRate \in FadeSampleRates :
          /\ fadeInSampleRange' = TimeToSample(fadeIn, sampleRate)
          /\ fadeOutSampleRange' = TimeToSample(fadeOut, sampleRate)
    /\ fadePrepared' = TRUE
    /\ UNCHANGED <<fadeIn, fadeOut, clearExtraSamples, fadePos, fadeCall>>
    /\ UNCHANGED <<sumVars, latVars>>

\* FadeInOutNode::renderingNeeded
RenderingNeeded(playing, timelineSampleRange) ==
    IF ~playing THEN FALSE
    ELSE \/ RangeIntersects(fadeInSampleRange, timelineSampleRange)
         \/ RangeIntersects(fadeOutSampleRange, timelineSampleRange)

\* a faulty variant: alpha2 is the progress at the block end also when the block passes the fade end
FadeInAlpha2_NoFadeEnd(timelineRange, range) == Max(0, timelineRange.end - range.start)

\* lines 94-103: alpha2 of the fade-in, as a numerator over the fade length
FadeInAlpha2(timelineRange, range) ==
    IF timelineRange.end >= range.end THEN RangeLength(range)
    ELSE Max(0, timelineRange.end - range.start)

\* lines 75-114: the fade-in applied to the destination.
\* Gives [audio, call]: the buffer, and the alphas (numerators over den), the
\* section computed for the fade curve, which is applied if endSamp > startSamp,
\* and the sub-block that is cleared, if one is
FadeInSection(dest, timelineRange, range, clear) ==
    LET numer == timelineRange.start - range.start
        startSamp0 == range.start - timelineRange.start
        startSamp == IF startSamp0 > 0 THEN startSamp0 ELSE 0
        alpha1 == IF startSamp0 > 0 THEN 0 ELSE numer
        cleared == IF startSamp0 > 0 /\ clear THEN ClearSubBlock(dest, 0, startSamp0) ELSE dest
        endSamp == IF timelineRange.end >= range.end
                   THEN timelineRange.end - range.end
                   ELSE RangeLength(timelineRange)
        alpha2 == FadeInAlpha2(timelineRange, range)
        den == RangeLength(range)
        call == [computed |-> TRUE, applied |-> endSamp > startSamp,
                 startSamp |-> startSamp, endSamp |-> endSamp,
                 alpha1 |-> alpha1, alpha2 |-> alpha2, den |-> den,
                 cleared |-> startSamp0 > 0 /\ clear,
                 clearStart |-> 0, clearLength |-> startSamp0]
    IN  IF endSamp > startSamp
        THEN [audio |-> ApplyCrossfadeSection(cleared, startSamp, endSamp - startSamp,
                                               alpha1, alpha2, den),
              call |-> call]
        ELSE [audio |-> cleared, call |-> call]

\* lines 116-153: the fade-out applied to the destination
FadeOutSection(dest, timelineRange, range, clear) ==
    LET numSamples == Len(dest)
        startSamp0 == range.start - timelineRange.start
        startSamp == IF startSamp0 <= 0 THEN 0 ELSE startSamp0
        alpha1 == IF startSamp0 <= 0 THEN timelineRange.start - range.start ELSE 0
        pastEnd == timelineRange.end >= range.end
        endSamp == IF pastEnd THEN timelineRange.end - range.end ELSE numSamples
        den == RangeLength(range)
        alpha2 == IF pastEnd THEN den ELSE timelineRange.end - range.start
        cleared == IF pastEnd /\ clear /\ endSamp < numSamples
                   THEN ClearSubBlock(dest, endSamp, numSamples - endSamp)
                   ELSE dest
        call == [computed |-> TRUE, applied |-> endSamp > startSamp,
                 startSamp |-> startSamp, endSamp |-> endSamp,
                 alpha1 |-> Limit01(den - alpha1, den),
                 alpha2 |-> Limit01(den - alpha2, den), den |-> den,
                 cleared |-> pastEnd /\ clear /\ endSamp < numSamples,
                 clearStart |-> endSamp, clearLength |-> numSamples - endSamp]
    IN  IF endSamp > startSamp
        THEN [audio |-> ApplyCrossfadeSection(cleared, startSamp, endSamp - startSamp,
                                               call.alpha1, call.alpha2, den),
              call |-> call]
        ELSE [audio |-> cleared, call |-> call]

\* The audio of FadeInOutNode::process: the source copied to the destination,
\* then the two fades.  Gives [audio, fadeInCall, fadeOutCall]
FadeProcessAudio(source, timelineRange, playing) ==
    LET copied == source
        notApplied == [computed |-> FALSE, applied |-> FALSE]
    IN  IF ~RenderingNeeded(playing, timelineRange)
        THEN [audio |-> copied, fadeInCall |-> notApplied, fadeOutCall |-> notApplied]
        ELSE LET in == IF RangeIntersects(timelineRange, fadeInSampleRange)
                          /\ RangeLength(fadeInSampleRange) > 0
                       THEN FadeInSection(copied, timelineRange, fadeInSampleRange,
                                          clearExtraSamples)
                       ELSE [audio |-> copied, call |-> notApplied]
                 out == IF RangeIntersects(timelineRange, fadeOutSampleRange)
                           /\ RangeLength(fadeOutSampleRange) > 0
                        THEN FadeOutSection(in.audio, timelineRange, fadeOutSampleRange,
                                            clearExtraSamples)
                        ELSE [audio |-> in.audio, call |-> notApplied]
             IN  [audio |-> out.audio, fadeInCall |-> in.call, fadeOutCall |-> out.call]

\* The MIDI of FadeInOutNode::process, lines 63 and 66: destMidiBlock is declared
\* `auto`, a copy of the array pc.buffers.midi refers to, and the source is
\* copied into that copy; the destination itself keeps what it held
FadeProcessMidi(destMidi, sourceMidi) ==
    LET destMidiBlock == sourceMidi
    IN  destMidi

\* the sample of the input node's output at timeline position p (0-based)
FadeInputSample(p) == Frac(p + 1, 1)

\* the MIDI of the input node's output for a block: a note at every third
\* timeline position, its time relative to the block start
FadeInputMidi(timelineRange) ==
    SelectSeq([k \in 1..RangeLength(timelineRange) |-> k - 1],
              LAMBDA t : (timelineRange.start + t) % 3 = 0)

\* FadeInOutNode::process for the block at the play head, with the play head
\* playing or stopped, onto a destination whose MIDI is empty; a playing play
\* head moves on by the block
FadeProcess ==
    /\ fadePrepared
    /\ \E numSamples \in 1..MaxFadeBlock, playing \in BOOLEAN :
        /\ fadePos + numSamples <= MaxTimeline
        /\ LET timelineRange == [start |-> fadePos, end |-> fadePos + numSamples]
               source == [k \in 1..numSamples |-> FadeInputSample(fadePos + k - 1)]
               sourceMidi == FadeInputMidi(timelineRange)
               r == FadeProcessAudio(source, timelineRange, playing)
           IN  fadeCall' = [called |-> TRUE, playing |-> playing,
                            timelineRange |-> timelineRange,
                            sourceAudio |-> source, sourceMidi |-> sourceMidi,
                            destAudio |-> r.audio,
                            destMidi |-> FadeProcessMidi(<<>>, sourceMidi),
                            fadeInCall |-> r.fadeInCall, fadeOutCall |-> r.fadeOutCall]
        /\ fadePos' = IF playing THEN fadePos + numSamples ELSE fadePos
    /\ UNCHANGED <<fadeIn, fadeOut, clearExtraSamples, fadeInSampleRange, fadeOutSampleRange,
                   fadePrepared>>
    /\ UNCHANGED <<sumVars, latVars>>

FadeNext == FadePrepareToPlay \/ FadeProcess

FadeSpec == FadeInit /\ [][FadeNext]_vars

(***************************************************************************)
(* Claims about FadeInOutNode (checked under FadeSpec)                     *)
(***************************************************************************)
\* what one process call over the whole timeline writes, the play head playing
WholeTimelineOutput ==
    FadeProcessAudio([k \in 1..MaxTimeline |-> FadeInputSample(k - 1)],
                     [start |-> 0, end |-> MaxTimeline], TRUE).audio

\* C3 as stated, for clearSamplesOutsideFade off (no sample is cleared): with
\* the play head playing, what process writes for a block is what a single
\* call over the whole timeline writes at the same timeline positions, so the
\* output is the same for every decomposition into blocks.
C3_BlockSizeInvariant ==
    (fadeCall.called /\ fadeCall.playing /\ ~clearExtraSamples) =>
        fadeCall.destAudio = SubSeq(WholeTimelineOutput,
                                    fadeCall.timelineRange.start + 1,
                                    fadeCall.timelineRange.end)

\* the block and the sample range have a sample in common
SharesSamples(r, other) ==
    \E p \in r.start..(r.end - 1) : p >= other.start /\ p < other.end

\* the case of C8: the play head is stopped, or the block shares no sample
\* with the fade-in range nor with the fade-out range
PassthroughCase ==
    /\ fadeCall.called
    /\ \/ ~fadeCall.playing
       \/ /\ ~SharesSamples(fadeCall.timelineRange, fadeInSampleRange)
          /\ ~SharesSamples(fadeCall.timelineRange, fadeOutSampleRange)

\* C8 as stated: in the passthrough case the destination audio and MIDI are
\* those of the input node's output.
C8_PassthroughAudioAndMidi ==
    PassthroughCase =>
        /\ fadeCall.destAudio = fadeCall.sourceAudio
        /\ fadeCall.destMidi = fadeCall.sourceMidi

\* the alphas of a computed section lie in [0, 1]
AlphasInUnitRange(call) ==
    call.computed =>
        /\ 0 <= call.alpha1 /\ call.alpha1 <= call.den
        /\ 0 <= call.alpha2 /\ call.alpha2 <= call.den

\* C9: for every block that intersects a non-empty fade range the two alphas
\* computed for the fade curve lie in [0, 1], for the fade-in and the fade-out.
C9_AlphasWithinBounds ==
    fadeCall.called =>
        /\ AlphasInUnitRange(fadeCall.fadeInCall)
        /\ AlphasInUnitRange(fadeCall.fadeOutCall)

\* a block that straddles only the start of the fade-in and one, later, that
\* straddles only the end of the fade-out are told apart by the sections
C9_Witness ==
    /\ fadeCall.called
    /\ fadeCall.playing
    /\ fadeCall.fadeInCall.computed
    /\ fadeCall.fadeInCall.applied
    /\ fadeCall.fadeInCall.startSamp > 0
    /\ fadeCall.fadeInCall.alpha2 > 0
    /\ fadeCall.fadeInCall.alpha2 < fadeCall.fadeInCall.den
    /\ fadeCall.fadeOutCall.computed
    /\ fadeCall.fadeOutCall.alpha1 = fadeCall.fadeOutCall.den

(***************************************************************************)
(* Claims about LatencyNode (checked under LatencySpec)                    *)
(***************************************************************************)
\* C2: the audio written over the process calls is the input shifted by
\* latencyNumSamples: that many zeros, then the input, for every delay and
\* every decomposition of the stream into blocks of 1..blockSize samples.
C2_AudioShiftedByDelay ==
    latChannels > 0 =>
        /\ Len(latOut) = latPos
        /\ \A j \in DOMAIN latOut :
              latOut[j] = IF j <= latencyNumSamples THEN 0
                          ELSE InputSample(j - latencyNumSamples)

C2_Witness ==
    /\ latChannels > 0
    /\ latencyNumSamples = 3
    /\ latBlockSize = 2
    /\ latPos = MaxStream
    /\ latOut[4] = InputSample(1)
    /\ fifo.validEnd < fifo.validStart

\* the stream time (ticks) at which an emitted MIDI event sits
EmittedAt(e) == e.blockStart + e.time

\* C4: every MIDI event that came in at stream time t is either pending, due
\* at t + latency, or was emitted exactly once, in the block that holds the
\* stream time t + latency and with the in-block time that places it there.
C4_MidiDelayedExactly ==
    /\ \A id \in DOMAIN midiIn :
          Cardinality({ k \in DOMAIN midiOut : midiOut[k].id = id })
          + Cardinality({ k \in DOMAIN midi : midi[k].id = id }) = 1
    /\ \A k \in DOMAIN midiOut :
          /\ midiOut[k].id \in DOMAIN midiIn
          /\ EmittedAt(midiOut[k]) = midiIn[midiOut[k].id] + latencyNumSamples * TicksPerSample
          /\ midiOut[k].time >= 0
          /\ midiOut[k].time <= midiOut[k].blockTime
    /\ \A k \in DOMAIN midi :
          /\ midi[k].id \in DOMAIN midiIn
          /\ latPos * TicksPerSample + midi[k].time
                = midiIn[midi[k].id] + latencyNumSamples * TicksPerSample
          /\ midi[k].time >= 0

C4_Witness ==
    /\ latencyNumSamples = 3
    /\ latBlockSize = 2
    /\ Len(midiIn) = 2
    /\ Len(midiOut) = 1
    /\ Len(midi) = 1
    /\ midiOut[1].blockStart > midiIn[midiOut[1].id]
    /\ midiOut[1].time = midiOut[1].blockTime

\* C5: after every process call no time in the pending MIDI queue is negative
\* and no event was emitted with a negative time.
C5_NoNegativeTime ==
    /\ \A k \in DOMAIN midi : midi[k].time >= 0
    /\ \A k \in DOMAIN midiOut : midiOut[k].time >= 0

C5_Witness ==
    /\ latPos > 0
    /\ Len(midi) = 2
    /\ latencyNumSamples > latBlockSize
    /\ midi[1].time < TicksPerSample

(***************************************************************************)
(* Claims about SummingNode (checked under SummingSpec)                    *)
(***************************************************************************)
\* the maximum of the inputs' latencies as given to the constructor
OriginalMaxLatency ==
    IF inputs = <<>> THEN 0
    ELSE CHOOSE m \in { inputs[i].latencyNumSamples : i \in DOMAIN inputs } :
            \A i \in DOMAIN inputs : inputs[i].latencyNumSamples <= m

\* the original input that entry p of the input list stands for
OriginalOf(p) ==
    IF IsLatencyNode(nodes[p]) THEN LatencyNodeOf(latencyNodes, nodes[p]).input ELSE nodes[p]

\* how many owners node id has: entries of ownedNodes and LatencyNode::ownedInput
NumOwners(id) ==
    Cardinality({ k \in DOMAIN ownedNodes : ownedNodes[k] = id })
    + Cardinality({ k \in DOMAIN latencyNodes : latencyNodes[k].ownedInput = id })

\* C1: after SummingNode::prepareToPlay every node of getDirectInputNodes()
\* reports a latency equal to the maximum of the inputs' original latencies.
C1_AllInputsAtMaxLatency ==
    prepared =>
        \A p \in DOMAIN GetDirectInputNodes :
            NodeLatency(latencyNodes, GetDirectInputNodes[p]) = OriginalMaxLatency

C1_Witness ==
    /\ prepared
    /\ Len(inputs) = 3
    /\ numReferenced = 1
    /\ Len(latencyNodes) = 2
    /\ latencyNodes[1].latencyNumSamples # latencyNodes[2].latencyNumSamples

Unwrapped == SelectSeq([i \in 1..Len(inputs) |-> i],
                       LAMBDA i : inputs[i].latencyNumSamples = OriginalMaxLatency)

Wrapped == SelectSeq([i \in 1..Len(inputs) |-> i],
                     LAMBDA i : inputs[i].latencyNumSamples # OriginalMaxLatency)

C7_SumOfConstants ==
    sumDest.processed =>
        \A ch \in DOMAIN sumDest.audio :
            sumDest.audio[ch] =
                SampleValue * Cardinality({ i \in DOMAIN inputs : inputs[i].numberOfChannels >= ch })

C7_Witness ==
    /\ sumDest.processed
    /\ Len(inputs) = 3
    /\ Len(latencyNodes) > 0
    /\ Len(sumDest.audio) = 2
    /\ sumDest.audio[1] = 3 * SampleValue
    /\ sumDest.audio[2] = SampleValue

\* C10: after the alignment every original input is reached exactly once,
\* directly or through exactly one LatencyNode; an owned input that was wrapped
\* is owned by its LatencyNode, a referenced one is wrapped by reference, every
\* LatencyNode is owned by the SummingNode, and no list holds a null entry.
C10_ReachableOnceAndOwned ==
    prepared =>
        /\ \A i \in DOMAIN inputs : Cardinality({ p \in DOMAIN nodes : OriginalOf(p) = i }) = 1
        /\ \A i \in DOMAIN inputs :
              Cardinality({ k \in DOMAIN latencyNodes : latencyNodes[k].input = i }) <= 1
        /\ \A k \in DOMAIN latencyNodes :
              LET l == latencyNodes[k]
              IN  /\ l.input \in DOMAIN inputs
                  /\ Cardinality({ p \in DOMAIN nodes : nodes[p] = Len(inputs) + k }) = 1
                  /\ Cardinality({ j \in DOMAIN ownedNodes : ownedNodes[j] = Len(inputs) + k }) = 1
                  /\ l.ownedInput = (IF l.input > numReferenced THEN l.input ELSE Null)
        /\ \A i \in DOMAIN inputs : NumOwners(i) = (IF i > numReferenced THEN 1 ELSE 0)
        /\ \A p \in DOMAIN nodes : nodes[p] # Null
        /\ \A j \in DOMAIN ownedNodes : ownedNodes[j] # Null

C10_Witness ==
    /\ prepared
    /\ Len(inputs) = 3
    /\ numReferenced = 1
    /\ \E k \in DOMAIN latencyNodes : latencyNodes[k].ownedInput # Null
    /\ \E k \in DOMAIN latencyNodes : latencyNodes[k].ownedInput = Null
    /\ \E j \in DOMAIN ownedNodes : ~IsLatencyNode(ownedNodes[j])

\* the LatencyNodes of the graph, by node id
LatencyNodeIds == { Len(inputs) + k : k \in 1..Len(latencyNodes) }

\* the inputs that no LatencyNode wraps
DirectInputs == { i \in 1..Len(inputs) :
                    \A k \in 1..Len(latencyNodes) : latencyNodes[k].input # i }

\* C11: the SummingNode is ready exactly when every node of its input list has
\* processed in this block, that is every inserted LatencyNode and every input
\* left unwrapped; a LatencyNode has processed only after its wrapped input, so
\* a ready SummingNode has every original input processed, and the SummingNode
\* itself processes only then.
C11_ReadyWhenAllProcessed ==
    /\ SummingIsReadyToProcess <=> (LatencyNodeIds \cup DirectInputs) \subseteq processed
    /\ \A id \in LatencyNodeIds :
          id \in processed => LatencyNodeOf(latencyNodes, id).input \in processed
    /\ SummingIsReadyToProcess => (1..Len(inputs)) \subseteq processed
    /\ sumDest.processed => (LatencyNodeIds \cup (1..Len(inputs))) \subseteq processed

\* an aligned SummingNode whose wrapped input has processed, but not yet its
\* LatencyNode: the SummingNode is not ready
C11_Witness ==
    /\ prepared
    /\ \E id \in LatencyNodeIds :
          /\ id \notin processed
          /\ LatencyIsReadyToProcess(id)
          /\ DirectInputs # {}
          /\ DirectInputs \subseteq processed
    /\ ~SummingIsReadyToProcess

\* C12: after prepareToPlay no process call changes the capacity of the pending
\* MIDI queue: neither the merge of the incoming events nor the removal of the
\* emitted ones allocates or releases storage.
C12_QueueCapacityFixed ==
    latCall.called =>
        /\ latCall.midiCapacityMerged = latCall.midiCapacityBefore
        /\ midiCapacity = latCall.midiCapacityMerged

\* C15: from prepareToPlay on the fifo holds exactly latencyNumSamples ready
\* samples between calls and has the size latencyNumSamples + blockSize + 1; in
\* a process call the block written fits the free space and the block read is
\* no longer than what is ready.
C15_FifoHoldsDelayBetweenCalls ==
    latPrepared =>
        /\ FifoNumReady(fifo) = latencyNumSamples
        /\ fifo.size = latencyNumSamples + latBlockSize + 1
        /\ (latCall.called /\ latCall.usesFifo) =>
              /\ latCall.numSamples <= latCall.freeSpace
              /\ latCall.numReady = latencyNumSamples + latCall.numSamples
              /\ latCall.numReady <= fifo.size - 1
              /\ latCall.numSamples <= latCall.numReady

\* a full block went through a fifo of the longest delay, whose ring has wrapped
C15_Witness ==
    /\ latCall.called
    /\ latCall.usesFifo
    /\ latencyNumSamples = MaxDelay
    /\ latCall.numSamples = latBlockSize
    /\ latCall.freeSpace = latCall.numSamples
    /\ fifo.validEnd < fifo.validStart

\* C16: the events one process call adds to the (empty) destination stand there
\* in non-decreasing order of their timestamps.
C16_EmittedInTimeOrder ==
    \A j, k \in DOMAIN midiOut :
        (j < k /\ midiOut[j].blockStart = midiOut[k].blockStart)
            => midiOut[j].time <= midiOut[k].time

\* C17: SummingNode::getNodeProperties() gives after prepareToPlay what it gave
\* at construction, over the inputs themselves: the OR of hasAudio and of
\* hasMidi, the maximum of numberOfChannels, and as latencyNumSamples the
\* maximum of the inputs' original latencies.
C17_PropertiesUnchangedByAlignment ==
    /\ GetNodeProperties(latencyNodes, nodes)
         = GetNodeProperties(<<>>, [i \in 1..Len(inputs) |-> i])
    /\ GetNodeProperties(latencyNodes, nodes).latencyNumSamples = OriginalMaxLatency

\* an aligned SummingNode whose only input with MIDI and whose only input with
\* the most channels are wrapped in LatencyNodes
C17_Witness ==
    /\ prepared
    /\ Len(latencyNodes) >= 2
    /\ GetNodeProperties(latencyNodes, nodes).hasMidi
    /\ GetNodeProperties(latencyNodes, nodes).numberOfChannels = 2
    /\ \A i \in 1..Len(nodes) :
          ~IsLatencyNode(nodes[i]) =>
              /\ ~inputs[nodes[i]].hasMidi
              /\ inputs[nodes[i]].numberOfChannels < 2

\* what one alignment makes of the lists the constructor built
AlignedOnce ==
    CreateLatencyNodes([i \in 1..Len(inputs) |-> i],
                       [i \in 1..(Len(inputs) - numReferenced) |-> numReferenced + i],
                       <<>>)

\* C18: once prepareToPlay has run, the input list, the owned list and the
\* LatencyNodes are what the first alignment made of the constructor's lists,
\* whatever further prepareToPlay and process calls follow, and every entry of
\* the input list keeps the maximum latency.
C18_AlignedOnce ==
    prepared =>
        /\ nodes = AlignedOnce.nodes
        /\ ownedNodes = AlignedOnce.ownedNodes
        /\ latencyNodes = AlignedOnce.latencyNodes
        /\ \A i \in 1..Len(nodes) : NodeLatency(latencyNodes, nodes[i]) = OriginalMaxLatency

\* prepareToPlay has run a second time on a SummingNode holding LatencyNodes,
\* some over referenced inputs, and process has run too
C18_Witness ==
    /\ prepareCalls = 2
    /\ sumDest.processed
    /\ Len(latencyNodes) >= 2
    /\ numReferenced >= 1

(***************************************************************************)
(* Further claims about FadeInOutNode (checked under FadeSpec)             *)
(***************************************************************************)
\* the last process call rendered a block that holds the end of this fade range
BlockHoldsEndOf(range) ==
    /\ fadeCall.called
    /\ fadeCall.playing
    /\ RangeLength(range) > 0
    /\ fadeCall.timelineRange.start < range.end
    /\ range.end <= fadeCall.timelineRange.end

\* C13: in a block that holds the end of the fade-in range the fade curve is
\* applied up to the block offset of the fade end, endSamp = fadeInEnd -
\* blockStart, with alpha2 = 1.0, also when the block ends on the fade end; with
\* no fade-out in the block, the samples at or after the fade end keep the
\* input amplitude.
C13_FadeInUpToFadeEnd ==
    BlockHoldsEndOf(fadeInSampleRange) =>
        LET call == fadeCall.fadeInCall
            fadeEndInBlock == fadeInSampleRange.end - fadeCall.timelineRange.start
        IN  /\ call.computed
            /\ call.applied
            /\ call.endSamp = fadeEndInBlock
            /\ call.alpha2 = call.den
            /\ ~fadeCall.fadeOutCall.computed =>
                  \A k \in DOMAIN fadeCall.destAudio :
                      k > fadeEndInBlock => fadeCall.destAudio[k] = fadeCall.sourceAudio[k]

\* C14: with clearSamplesOutsideFade on, in a block that holds the end of the
\* fade-out range the fade-out clears exactly the samples at or after the
\* fade-out end: the sub-block from fadeOutEnd - blockStart to the block end,
\* nothing when the block ends on the fade-out end.
C14_ClearsFromFadeOutEnd ==
    (clearExtraSamples /\ BlockHoldsEndOf(fadeOutSampleRange)) =>
        LET call == fadeCall.fadeOutCall
            numSamples == RangeLength(fadeCall.timelineRange)
            fadeEndInBlock == fadeOutSampleRange.end - fadeCall.timelineRange.start
        IN  /\ call.computed
            /\ IF fadeEndInBlock < numSamples
               THEN /\ call.cleared
                    /\ call.clearStart = fadeEndInBlock
                    /\ call.clearLength = numSamples - fadeEndInBlock
               ELSE ~call.cleared

\* the regions of the block this fade section wrote to lie inside the block
RegionsInsideBlock(call, numSamples) ==
    call.computed =>
        /\ 0 <= call.startSamp
        /\ call.applied =>
              /\ call.endSamp - call.startSamp > 0
              /\ call.startSamp + (call.endSamp - call.startSamp) <= numSamples
        /\ call.cleared =>
              /\ 0 <= call.clearStart
              /\ 0 <= call.clearLength
              /\ call.clearStart + call.clearLength <= numSamples

\* C19: in every process call the section handed to the fade curve and every
\* sub-block that is cleared lie inside the block, for the fade-in and for the
\* fade-out.
C19_RegionsInsideBlock ==
    fadeCall.called =>
        /\ RegionsInsideBlock(fadeCall.fadeInCall, RangeLength(fadeCall.timelineRange))
        /\ RegionsInsideBlock(fadeCall.fadeOutCall, RangeLength(fadeCall.timelineRange))

\* one call that clears before the fade-in start, applies the fade-in and
\* clears after the fade-out
C19_Witness ==
    /\ fadeCall.called
    /\ fadeCall.fadeInCall.computed
    /\ fadeCall.fadeInCall.cleared
    /\ fadeCall.fadeInCall.applied
    /\ fadeCall.fadeOutCall.computed
    /\ fadeCall.fadeOutCall.cleared
    /\ fadeCall.fadeOutCall.clearLength > 0

=============================================================================
